---- MODULE Spec2Model ----
(***************************************************************************)
(* Model of rustls' handshake transcript hash (hash_hs.rs) and of the      *)
(* record framing / payload dispatch of msgs/message.rs.                   *)
(*                                                                         *)
(* A transcript is a sequence of items [v, alg, h]:                        *)
(*   a wire byte b is              [v |-> b, alg |-> "",  h |-> <<>>]      *)
(*   the n bytes of digest_alg(d)  [v |-> n, alg |-> alg, h |-> d]         *)
(* so the digest primitive is collision free by construction and a digest  *)
(* value can be embedded in later transcript bytes (HelloRetryRequest).    *)
(* ByteLen gives the number of bytes a sequence of items stands for.       *)
(* Bytes on the record layer are plain integers 0..255.                    *)
(***************************************************************************)
EXTENDS Integers, Sequences, FiniteSets, TLC

VARIABLES
    hh,                \* the HandshakeHash
    pc,                \* "running", or "panicked" after an assertion or unwrap failed
    absorbed,          \* all bytes callers absorbed, in order
    absorbs,           \* number of update_raw / add_message calls
    collapsed,         \* number of rollup_for_hrr calls
    hBefore,           \* the digest the last rollup_for_hrr started from
    sinceCollapse,     \* bytes absorbed since the last rollup_for_hrr
    op, arg, retb, ret, wireP, fed, parsed,   \* the last call and its results
    hist,              \* what has happened so far (see the monitors)
    msg, wire, res, step   \* record framer: record, wire bytes, read result

obsVars == <<op, arg, retb, ret, wireP, fed, parsed>>

trVars == <<absorbed, absorbs, collapsed, hBefore, sinceCollapse>>

frameVars == <<msg, wire, res, step>>

vars == <<hh, pc, trVars, obsVars, hist, frameVars>>

\* ---------------------------------------------------------------- bounds
\* number of update_raw / add_message calls in one behaviour
MaxAbsorbs == 2

\* number of rollup_for_hrr calls in one behaviour
MaxCollapse == 1

\* longest payload of the small records framed (the long ones sit at the
\* limits of the length field)
MaxPayloadLen == 2

\* most bytes that follow a header given as raw input
MaxBody == 1

\* longest payload handed to the payload dispatcher on its own
MaxDispatchLen == 4

\* bytes of a stream behind its first header
MaxTail == 3

\* ------------------------------------------------------ Option / helpers
None == <<>>

Some(x) == <<x>>

is_none(o) == o = <<>>

unwrap(o) == o[1]

\* a wire byte as a transcript byte
Raw(b) == [v |-> b, alg |-> "", h |-> <<>>]

Lift(s) == [i \in 1..Len(s) |-> Raw(s[i])]

\* ------------------------------------------- ring::digest (collaborator)
Algorithms == {"SHA256", "SHA384"}

output_len(alg) == IF alg = "SHA256" THEN 32 ELSE 48

Context_new(alg) == [algorithm |-> alg, input |-> <<>>]

Context_update(c, data) == [c EXCEPT !.input = @ \o data]

\* the digest of `data` under `alg`: one item of output_len(alg) bytes
Digest(alg, data) == <<[v |-> output_len(alg), alg |-> alg, h |-> data]>>

\* Vec::len of the bytes a sequence of items stands for
RECURSIVE ByteLen(_)
ByteLen(s) ==
    IF s = <<>> THEN 0
    ELSE (IF s[1].alg = "" THEN 1 ELSE s[1].v) + ByteLen(Tail(s))

Context_finish(c) == Digest(c.algorithm, c.input)

\* ---------------------------------------- msgs::codec integers (u8, u24)
u24_encode(n) == <<(n \div 65536) % 256, (n \div 256) % 256, n % 256>>

u16_encode(n) == <<(n \div 256) % 256, n % 256>>

\* ------------------------------------------------ HandshakeMessagePayload
\* HandshakeType::MessageHash
MessageHash == 254

\* HandshakeMessagePayload::build_handshake_hash: typ MessageHash wrapping
\* the hash bytes
build_handshake_hash(hash) == [typ |-> MessageHash, body |-> hash]

\* Codec::get_encoding of a handshake message over transcript bytes:
\* type, u24 length, body
get_encoding(hs) == Lift(<<hs.typ>> \o u24_encode(ByteLen(hs.body))) \o hs.body

\* ---------------------------------------------------------- HandshakeHash
new == [ctx |-> None, client_auth_enabled |-> FALSE, buffer |-> <<>>,
        override_buffer |-> None]

new_override(static_buffer) ==
    [ctx |-> None, client_auth_enabled |-> FALSE, buffer |-> <<>>,
     override_buffer |-> Some(static_buffer)]

set_client_auth_enabled(h) == [h EXCEPT !.client_auth_enabled = TRUE]

\* (mutant) the flag is cleared and the buffer is kept
abandon_client_auth_keep(h) == [h EXCEPT !.client_auth_enabled = FALSE]

abandon_client_auth(h) ==
    [h EXCEPT !.client_auth_enabled = FALSE, !.buffer = <<>>]

\* (mutant) the catch-up over the buffer is left out
start_hash_ctx_nocatchup(h, alg) == Context_new(alg)

\* the context start_hash installs when none is pinned
start_hash_ctx(h, alg) == Context_update(Context_new(alg), h.buffer)

\* (mutant) the buffer is discarded whether or not it is needed
start_hash_buffer_discard(h) == <<>>

\* (mutant) the buffer is kept whether or not it is needed
start_hash_buffer_keep(h) == h.buffer

\* the buffer start_hash leaves behind when it pins
start_hash_buffer(h) == IF ~h.client_auth_enabled THEN <<>> ELSE h.buffer

\* (mutant) a different algorithm re-pins instead of being refused
start_hash_repin(h, alg) ==
    IF ~is_none(h.ctx) /\ unwrap(h.ctx).algorithm = alg
    THEN [h |-> h, r |-> TRUE]
    ELSE [h |-> [h EXCEPT !.ctx = Some(Context_update(Context_new(alg), h.buffer)),
                          !.buffer = IF ~h.client_auth_enabled THEN <<>> ELSE h.buffer],
          r |-> TRUE]

\* start_hash: [h |-> engine afterwards, r |-> return value]
start_hash(h, alg) ==
    IF ~is_none(h.ctx)
    THEN IF unwrap(h.ctx).algorithm # alg
         THEN [h |-> h, r |-> FALSE]
         ELSE [h |-> h, r |-> TRUE]
    ELSE [h |-> [h EXCEPT !.ctx = Some(start_hash_ctx(h, alg)),
                          !.buffer = start_hash_buffer(h)],
          r |-> TRUE]

\* (mutant) bytes are buffered only for client auth
update_raw_buffers_retained_only(h) == h.client_auth_enabled

\* whether update_raw appends to the buffer
update_raw_buffers(h) == is_none(h.ctx) \/ h.client_auth_enabled

update_raw(h, buf) ==
    LET h1 == IF ~is_none(h.ctx)
              THEN [h EXCEPT !.ctx = Some(Context_update(unwrap(h.ctx), buf))]
              ELSE h
    IN IF update_raw_buffers(h1)
       THEN [h1 EXCEPT !.buffer = @ \o buf]
       ELSE h1

\* (mutant) the `hash` argument is honoured when an algorithm is pinned
get_hash_given_rehash(h, hash, extra) ==
    LET data == IF is_none(h.ctx) THEN h.buffer ELSE unwrap(h.ctx).input
    IN Context_finish(Context_update(Context_update(Context_new(hash), data), extra))

get_hash_given(h, hash, extra) ==
    LET c == IF is_none(h.ctx)
             THEN Context_update(Context_new(hash), h.buffer)
             ELSE unwrap(h.ctx)
    IN Context_finish(Context_update(c, extra))

\* (mutant) the old context is kept instead of being replaced
rollup_new_ctx_keep(c) == c

\* the context rollup_for_hrr puts in place of the old one
rollup_new_ctx(c) == Context_new(c.algorithm)

\* rollup_for_hrr, defined when an algorithm is pinned
rollup_for_hrr(h) ==
    LET old_ctx == unwrap(h.ctx)
        h1 == [h EXCEPT !.ctx = Some(rollup_new_ctx(old_ctx))]
        old_hash == Context_finish(old_ctx)
        old_handshake_hash_msg == build_handshake_hash(old_hash)
    IN update_raw(h1, get_encoding(old_handshake_hash_msg))

\* get_current_hash, defined when an algorithm is pinned
get_current_hash(h) == Context_finish(unwrap(h.ctx))

\* (mutant) the override is used only while no algorithm is pinned
get_current_hash_raw_ctx_first(h) ==
    IF ~is_none(h.ctx)
    THEN Context_finish(unwrap(h.ctx))
    ELSE unwrap(h.override_buffer)

\* get_current_hash_raw; without an override it is get_current_hash
get_current_hash_raw(h) ==
    IF ~is_none(h.override_buffer)
    THEN unwrap(h.override_buffer)
    ELSE get_current_hash(h)

\* take_handshake_buf: [h |-> engine afterwards, r |-> the bytes taken]
take_handshake_buf(h) == [h |-> [h EXCEPT !.buffer = <<>>], r |-> h.buffer]

\* -------------------------------------------------- msgs::enums (decoded)
\* ContentType, as From<u8> builds it: a named variant or Unknown(x)
ContentType_from(b) ==
    CASE b = 20 -> [variant |-> "ChangeCipherSpec", x |-> 0]
      [] b = 21 -> [variant |-> "Alert", x |-> 0]
      [] b = 22 -> [variant |-> "Handshake", x |-> 0]
      [] b = 23 -> [variant |-> "ApplicationData", x |-> 0]
      [] b = 24 -> [variant |-> "Heartbeat", x |-> 0]
      [] OTHER  -> [variant |-> "Unknown", x |-> b]

ContentType_get_u8(t) ==
    CASE t.variant = "ChangeCipherSpec" -> 20
      [] t.variant = "Alert" -> 21
      [] t.variant = "Handshake" -> 22
      [] t.variant = "ApplicationData" -> 23
      [] t.variant = "Heartbeat" -> 24
      [] OTHER -> t.x

\* ProtocolVersion, as From<u16> builds it: a named variant or Unknown(x)
ProtocolVersion_from(v) ==
    CASE v = 512 -> [variant |-> "SSLv2", x |-> 0]
      [] v = 768 -> [variant |-> "SSLv3", x |-> 0]
      [] v = 769 -> [variant |-> "TLSv1_0", x |-> 0]
      [] v = 770 -> [variant |-> "TLSv1_1", x |-> 0]
      [] v = 771 -> [variant |-> "TLSv1_2", x |-> 0]
      [] v = 772 -> [variant |-> "TLSv1_3", x |-> 0]
      [] OTHER   -> [variant |-> "Unknown", x |-> v]

ProtocolVersion_get_u16(p) ==
    CASE p.variant = "SSLv2" -> 512
      [] p.variant = "SSLv3" -> 768
      [] p.variant = "TLSv1_0" -> 769
      [] p.variant = "TLSv1_1" -> 770
      [] p.variant = "TLSv1_2" -> 771
      [] p.variant = "TLSv1_3" -> 772
      [] OTHER -> p.x

\* ------------------------------------------- structured payload decoders
\* Every decoder gives None or Some(message); a message is
\* [kind, typ, body]: body holds transcript bytes, typ the handshake type.
u24_read(b1, b2, b3) == b1 * 65536 + b2 * 256 + b3

\* HandshakeMessagePayload::read_version: type, u24 length, a body of that
\* length (HelloRequest, type 0, has an empty body; the other types used
\* here are opaque); bytes after the body are left in the reader
HandshakeMessagePayload_read(p) ==
    IF Len(p) < 4 THEN None
    ELSE LET len == u24_read(p[2], p[3], p[4])
         IN IF Len(p) - 4 < len THEN None
            ELSE IF p[1] = 0 /\ len # 0 THEN None
            ELSE Some([kind |-> "Handshake", typ |-> p[1],
                       body |-> Lift(SubSeq(p, 5, 4 + len))])

\* AlertMessagePayload::read: level, description
AlertMessagePayload_read(p) ==
    IF Len(p) < 2 THEN None
    ELSE Some([kind |-> "Alert", typ |-> 0, body |-> Lift(SubSeq(p, 1, 2))])

\* ChangeCipherSpecPayload::read: one byte, any value
ChangeCipherSpecPayload_read(p) ==
    IF Len(p) < 1 THEN None
    ELSE Some([kind |-> "ChangeCipherSpec", typ |-> 0, body |-> <<>>])

\* HeartbeatPayload::read: type, u16 length, payload of that length
HeartbeatPayload_read(p) ==
    IF Len(p) < 3 THEN None
    ELSE LET len == p[2] * 256 + p[3]
         IN IF Len(p) - 3 < len THEN None
            ELSE Some([kind |-> "Heartbeat", typ |-> p[1],
                       body |-> Lift(SubSeq(p, 4, 3 + len))])

\* (mutant) no fallback: a handshake payload that does not parse is an error
handshake_fallback_none(parsed_hs, fallback_payload) == parsed_hs

\* what the Handshake arm gives when the handshake decoder gives None
handshake_fallback(parsed_hs, fallback_payload) ==
    IF is_none(parsed_hs)
    THEN Some([kind |-> "TLS12EncryptedHandshake", typ |-> 0,
               body |-> Lift(fallback_payload)])
    ELSE parsed_hs

\* MessagePayload::new: [ok, m, err]; err is the ContentType of
\* Error::CorruptMessagePayload
MessagePayload_new(typ, vers, payload) ==
    LET fallback_payload == payload
        parsed_ ==
          CASE typ.variant = "ApplicationData" ->
                 Some([kind |-> "ApplicationData", typ |-> 0, body |-> Lift(payload)])
            [] typ.variant = "Alert" -> AlertMessagePayload_read(payload)
            [] typ.variant = "Handshake" ->
                 handshake_fallback(HandshakeMessagePayload_read(payload),
                                    fallback_payload)
            [] typ.variant = "ChangeCipherSpec" -> ChangeCipherSpecPayload_read(payload)
            [] typ.variant = "Heartbeat" -> HeartbeatPayload_read(payload)
            [] OTHER -> None
    IN IF is_none(parsed_)
       THEN [ok |-> FALSE, m |-> [kind |-> "", typ |-> 0, body |-> <<>>], err |-> typ]
       ELSE [ok |-> TRUE, m |-> unwrap(parsed_), err |-> typ]

\* the bytes add_message hands to update_raw for a handshake message
add_message_buf(m) == get_encoding([typ |-> m.typ, body |-> m.body])

\* add_message: only MessagePayload::Handshake is hashed
add_message(h, m) ==
    IF m.kind = "Handshake" THEN update_raw(h, add_message_buf(m)) ELSE h

\* ------------------------------------------------ inputs of the engine
\* byte slices callers absorb
Chunks == {Lift(<<1>>)}

\* `extra` of get_hash_given
Extras == {Lift(<<4>>)}

\* override digests of new_override
Overrides == {Lift(<<9, 9>>)}

\* record payloads handed to the payload dispatcher: a HelloRequest, one
\* followed by one more byte, and a truncated one
Payloads == {<<0, 0, 0, 0>>, <<0, 0, 0, 0, 7>>, <<0, 0, 0>>}

\* the records dispatched, <<content type byte, payload>>: Handshake
\* records and one ApplicationData record
Dispatched == {<<22, p>> : p \in Payloads} \cup {<<23, <<0, 0, 0, 0>>>>}

TLSv1_2 == ProtocolVersion_from(771)

NoMessage == [ok |-> FALSE, m |-> [kind |-> "", typ |-> 0, body |-> <<>>],
              err |-> ContentType_from(0)]

NoRecord == [typ |-> ContentType_from(0), version |-> ProtocolVersion_from(0),
             payload |-> <<>>]

NoResult == [err |-> "", typ |-> ContentType_from(0),
             version |-> ProtocolVersion_from(0), payload |-> <<>>, used |-> 0]

\* nothing has happened yet
Hist0 == [prePin |-> FALSE, pinnedAt |-> -1, retained |-> FALSE,
          sinceTake |-> <<>>, sinceClear |-> <<>>, lastClear |-> "",
          taken |-> FALSE, prev |-> NoResult]

FrameIdle == /\ msg = NoRecord
             /\ wire = <<>>
             /\ res = NoResult
             /\ step = "idle"

InitWith(engines) ==
    /\ hh \in engines
    /\ pc = "running"
    /\ absorbed = <<>>
    /\ absorbs = 0
    /\ collapsed = 0
    /\ hBefore = <<>>
    /\ sinceCollapse = <<>>
    /\ op = "new"
    /\ arg = ""
    /\ retb = TRUE
    /\ ret = <<>>
    /\ wireP = <<>>
    /\ fed = <<>>
    /\ parsed = NoMessage
    /\ hist = Hist0
    /\ FrameIdle

\* HandshakeHash::new()
Init == InitWith({new})

\* HandshakeHash::new() or HandshakeHash::new_override(v)
InitOverride == InitWith({new} \cup {new_override(v) : v \in Overrides})

\* what the last call was given and what it returned; every call
\* overwrites all of it
Obs(name, a, rb, r, p, f, m) ==
    /\ op' = name
    /\ arg' = a
    /\ retb' = rb
    /\ ret' = r
    /\ wireP' = p
    /\ fed' = f
    /\ parsed' = m

\* a call that returns nothing
Called(name, h) ==
    /\ hh' = h
    /\ Obs(name, "", TRUE, <<>>, <<>>, <<>>, NoMessage)
    /\ UNCHANGED <<pc, frameVars>>

\* a failed unwrap() of None, or a failed debug_assert! in a build that
\* compiles it in
Panic(name) ==
    /\ pc' = "panicked"
    /\ Obs(name, "", TRUE, <<>>, <<>>, <<>>, NoMessage)
    /\ UNCHANGED <<hh, trVars, frameVars>>

\* debug_assert!(self.ctx.is_none()): when it fails, a debug build panics
\* and a release build goes on
SetClientAuthEnabled ==
    /\ pc = "running"
    /\ \/ /\ ~is_none(hh.ctx)
          /\ Panic("set_client_auth_enabled")
       \/ /\ Called("set_client_auth_enabled", set_client_auth_enabled(hh))
          /\ UNCHANGED trVars

AbandonClientAuth ==
    /\ pc = "running"
    /\ Called("abandon_client_auth", abandon_client_auth(hh))
    /\ UNCHANGED trVars

StartHash(alg) ==
    /\ pc = "running"
    /\ hh' = start_hash(hh, alg).h
    /\ Obs("start_hash", alg, start_hash(hh, alg).r, <<>>, <<>>, <<>>, NoMessage)
    /\ UNCHANGED <<pc, trVars, frameVars>>

\* the transcript history after `buf` was absorbed
Absorbed(buf) ==
    /\ absorbed' = absorbed \o buf
    /\ absorbs' = absorbs + 1
    /\ sinceCollapse' = sinceCollapse \o buf
    /\ UNCHANGED <<collapsed, hBefore>>

UpdateRaw(buf) ==
    /\ pc = "running"
    /\ absorbs < MaxAbsorbs
    /\ hh' = update_raw(hh, buf)
    /\ Obs("update_raw", "", TRUE, <<>>, <<>>, buf, NoMessage)
    /\ Absorbed(buf)
    /\ UNCHANGED <<pc, frameVars>>

\* Message::try_from(record) and, when it gives a message, add_message
AddMessage(t, p) ==
    LET r == MessagePayload_new(ContentType_from(t), TLSv1_2, p)
        buf == IF r.ok /\ r.m.kind = "Handshake" THEN add_message_buf(r.m) ELSE <<>>
    IN /\ pc = "running"
       /\ absorbs < MaxAbsorbs
       /\ hh' = IF r.ok THEN add_message(hh, r.m) ELSE hh
       /\ Obs("add_message", "", r.ok, <<>>, p, buf, r)
       /\ Absorbed(buf)
       /\ UNCHANGED <<pc, frameVars>>

GetHashGiven(alg, extra) ==
    /\ pc = "running"
    /\ Obs("get_hash_given", alg, TRUE, get_hash_given(hh, alg, extra), <<>>,
           extra, NoMessage)
    /\ UNCHANGED <<hh, pc, trVars, frameVars>>

RollupForHrr ==
    /\ pc = "running"
    /\ collapsed < MaxCollapse
    /\ IF is_none(hh.ctx)
       THEN Panic("rollup_for_hrr")
       ELSE /\ Called("rollup_for_hrr", rollup_for_hrr(hh))
            /\ collapsed' = collapsed + 1
            /\ hBefore' = get_current_hash(hh)
            /\ sinceCollapse' = <<>>
            /\ UNCHANGED <<absorbed, absorbs>>

GetCurrentHash ==
    /\ pc = "running"
    /\ IF is_none(hh.ctx)
       THEN Panic("get_current_hash")
       ELSE /\ Obs("get_current_hash", "", TRUE, get_current_hash(hh), <<>>,
                   <<>>, NoMessage)
            /\ UNCHANGED <<hh, pc, trVars, frameVars>>

GetCurrentHashRaw ==
    /\ pc = "running"
    /\ IF is_none(hh.override_buffer) /\ is_none(hh.ctx)
       THEN Panic("get_current_hash_raw")
       ELSE /\ Obs("get_current_hash_raw", "", TRUE, get_current_hash_raw(hh),
                   <<>>, <<>>, NoMessage)
            /\ UNCHANGED <<hh, pc, trVars, frameVars>>

\* debug_assert!(self.client_auth_enabled): when it fails, a debug build
\* panics and a release build goes on
TakeHandshakeBuf ==
    /\ pc = "running"
    /\ \/ /\ ~hh.client_auth_enabled
          /\ Panic("take_handshake_buf")
       \/ /\ hh' = take_handshake_buf(hh).h
          /\ Obs("take_handshake_buf", "", TRUE, take_handshake_buf(hh).r,
                 <<>>, <<>>, NoMessage)
          /\ UNCHANGED <<pc, trVars, frameVars>>

\* no monitor: hist stays as it is
MonitorNone == UNCHANGED hist

\* one call on the engine
Next ==
    \/ SetClientAuthEnabled /\ MonitorNone
    \/ AbandonClientAuth /\ MonitorNone
    \/ \E alg \in Algorithms : StartHash(alg) /\ MonitorNone
    \/ \E buf \in Chunks : UpdateRaw(buf) /\ MonitorNone
    \/ \E d \in Dispatched : AddMessage(d[1], d[2]) /\ MonitorNone
    \/ \E alg \in Algorithms, extra \in Extras : GetHashGiven(alg, extra) /\ MonitorNone
    \/ RollupForHrr /\ MonitorNone
    \/ GetCurrentHash /\ MonitorNone
    \/ GetCurrentHashRaw /\ MonitorNone
    \/ TakeHandshakeBuf /\ MonitorNone

\* every sequence of calls on a fresh engine
Spec == Init /\ [][Next]_vars

\* the same on an engine that may carry an override digest
NextOverride ==
    \/ SetClientAuthEnabled /\ MonitorNone
    \/ AbandonClientAuth /\ MonitorNone
    \/ \E alg \in Algorithms : StartHash(alg) /\ MonitorNone
    \/ \E buf \in Chunks : UpdateRaw(buf) /\ MonitorNone
    \/ \E d \in Dispatched : AddMessage(d[1], d[2]) /\ MonitorNone
    \/ \E alg \in Algorithms, extra \in Extras : GetHashGiven(alg, extra) /\ MonitorNone
    \/ RollupForHrr /\ MonitorNone
    \/ GetCurrentHash /\ MonitorNone
    \/ GetCurrentHashRaw /\ MonitorNone
    \/ TakeHandshakeBuf /\ MonitorNone

SpecOverride == InitOverride /\ [][NextOverride]_vars

\* monitor: prePin - abandon_client_auth or take_handshake_buf was called
\* before the algorithm was pinned; pinnedAt - how many bytes had been
\* absorbed when the algorithm was pinned (-1 before that)
MonitorPin ==
    hist' = IF pc' = "running"
            THEN [hist EXCEPT
                    !.prePin = @ \/ (/\ op' \in {"abandon_client_auth",
                                                 "take_handshake_buf"}
                                     /\ is_none(hh.ctx)),
                    !.pinnedAt = IF is_none(hh.ctx) /\ ~is_none(hh'.ctx)
                                 THEN Len(absorbed) ELSE @]
            ELSE hist

NextPin ==
    \/ SetClientAuthEnabled /\ MonitorPin
    \/ AbandonClientAuth /\ MonitorPin
    \/ \E alg \in Algorithms : StartHash(alg) /\ MonitorPin
    \/ \E buf \in Chunks : UpdateRaw(buf) /\ MonitorPin
    \/ \E d \in Dispatched : AddMessage(d[1], d[2]) /\ MonitorPin
    \/ \E alg \in Algorithms, extra \in Extras : GetHashGiven(alg, extra) /\ MonitorPin
    \/ RollupForHrr /\ MonitorPin
    \/ GetCurrentHash /\ MonitorPin
    \/ GetCurrentHashRaw /\ MonitorPin
    \/ TakeHandshakeBuf /\ MonitorPin

SpecPin == Init /\ [][NextPin]_vars

\* monitor: retained - retention was enabled while the engine was as
\* created and has not been abandoned since; sinceTake - the bytes
\* absorbed since the last take_handshake_buf; taken - take_handshake_buf
\* has been called
MonitorRetain ==
    hist' = IF pc' = "running"
            THEN [hist EXCEPT
                    !.retained =
                       CASE op' = "set_client_auth_enabled" ->
                              @ \/ (hh = new /\ absorbed = <<>> /\ collapsed = 0)
                         [] op' = "abandon_client_auth" -> FALSE
                         [] OTHER -> @,
                    !.taken = @ \/ op' = "take_handshake_buf",
                    !.sinceTake =
                       IF op' = "take_handshake_buf" THEN <<>>
                       ELSE @ \o SubSeq(absorbed', Len(absorbed) + 1, Len(absorbed'))]
            ELSE hist

NextRetain ==
    \/ SetClientAuthEnabled /\ MonitorRetain
    \/ AbandonClientAuth /\ MonitorRetain
    \/ \E alg \in Algorithms : StartHash(alg) /\ MonitorRetain
    \/ \E buf \in Chunks : UpdateRaw(buf) /\ MonitorRetain
    \/ \E d \in Dispatched : AddMessage(d[1], d[2]) /\ MonitorRetain
    \/ \E alg \in Algorithms, extra \in Extras : GetHashGiven(alg, extra) /\ MonitorRetain
    \/ RollupForHrr /\ MonitorRetain
    \/ GetCurrentHash /\ MonitorRetain
    \/ GetCurrentHashRaw /\ MonitorRetain
    \/ TakeHandshakeBuf /\ MonitorRetain

SpecRetain == Init /\ [][NextRetain]_vars

\* monitor: lastClear - the last call, made while no algorithm was pinned,
\* that emptied the buffer ("abandon_client_auth", "take_handshake_buf",
\* or "" when there was none); sinceClear - the bytes absorbed since that
\* call, or since the engine was created; pinnedAt - how many bytes had
\* been absorbed when the algorithm was pinned (-1 before that)
MonitorClear ==
    hist' = IF pc' = "running"
            THEN IF op' \in {"abandon_client_auth", "take_handshake_buf"}
                    /\ is_none(hh.ctx)
                 THEN [hist EXCEPT !.lastClear = op', !.sinceClear = <<>>]
                 ELSE [hist EXCEPT
                         !.sinceClear =
                            @ \o SubSeq(absorbed', Len(absorbed) + 1, Len(absorbed')),
                         !.pinnedAt = IF is_none(hh.ctx) /\ ~is_none(hh'.ctx)
                                      THEN Len(absorbed) ELSE @]
            ELSE hist

NextClear ==
    \/ SetClientAuthEnabled /\ MonitorClear
    \/ AbandonClientAuth /\ MonitorClear
    \/ \E alg \in Algorithms : StartHash(alg) /\ MonitorClear
    \/ \E buf \in Chunks : UpdateRaw(buf) /\ MonitorClear
    \/ \E d \in Dispatched : AddMessage(d[1], d[2]) /\ MonitorClear
    \/ \E alg \in Algorithms, extra \in Extras : GetHashGiven(alg, extra) /\ MonitorClear
    \/ RollupForHrr /\ MonitorClear
    \/ GetCurrentHash /\ MonitorClear
    \/ GetCurrentHashRaw /\ MonitorClear
    \/ TakeHandshakeBuf /\ MonitorClear

SpecClear == Init /\ [][NextClear]_vars

\* ------------------------------------------------------- OpaqueMessage
\* This is the maximum on-the-wire size of a TLSCiphertext
MAX_PAYLOAD == 16384 + 2048

\* Content type, version and size
HEADER_SIZE == 1 + 2 + 2

\* Maximum on-wire message size
MAX_WIRE_SIZE == MAX_PAYLOAD + HEADER_SIZE

\* Reader: u8::read, u16::read and sub at offset offs of buf; None when too
\* few bytes are left
u8_read(buf, offs) ==
    IF Len(buf) - offs < 1 THEN None ELSE Some(buf[offs + 1])

u16_read(buf, offs) ==
    IF Len(buf) - offs < 2 THEN None
    ELSE Some(buf[offs + 1] * 256 + buf[offs + 2])

Reader_sub(buf, offs, len) ==
    IF Len(buf) - offs < len THEN None
    ELSE Some(SubSeq(buf, offs + 1, offs + len))

\* a result of OpaqueMessage::read: err is "Ok" or the MessageError, used
\* is the reader's offset afterwards
ReadErr(e, offs) ==
    [err |-> e, typ |-> ContentType_from(0), version |-> ProtocolVersion_from(0),
     payload |-> <<>>, used |-> offs]

\* (mutant) a length equal to MAX_PAYLOAD is let through
oversize_gt(len) == len > MAX_PAYLOAD

\* Reject oversize messages
oversize(len) == len >= MAX_PAYLOAD

\* (mutant) new content types are accepted
illegal_content_type_none(typ) == FALSE

\* Don't accept any new content-types
illegal_content_type(typ) == typ.variant = "Unknown"

\* the version arm: ProtocolVersion::Unknown(v) if (v & 0xff00) != 0x0300
illegal_version(version) ==
    version.variant = "Unknown" /\ (version.x \div 256) * 256 # 768

\* (mutant) a body that is not all there is reported as an illegal length
short_body_error_fatal == "IllegalLength"

\* the error of a body that is not all there
short_body_error == "TooShortForLength"

\* (mutant) the payload is whatever is left in the reader
sub_len_rest(buf, len) == Len(buf) - 5

\* the number of bytes taken as payload: r.sub(len as usize)
sub_len(buf, len) == len

OpaqueMessage_read(buf) ==
    LET t == u8_read(buf, 0)
        v == u16_read(buf, 1)
        l == u16_read(buf, 3)
    IN IF is_none(t) THEN ReadErr("TooShortForHeader", 0)
       ELSE IF is_none(v) THEN ReadErr("TooShortForHeader", 1)
       ELSE IF is_none(l) THEN ReadErr("TooShortForHeader", 3)
       ELSE LET typ == ContentType_from(unwrap(t))
                version == ProtocolVersion_from(unwrap(v))
                len == unwrap(l)
                sub == Reader_sub(buf, 5, sub_len(buf, len))
            IN IF oversize(len) THEN ReadErr("IllegalLength", 5)
               ELSE IF illegal_content_type(typ) THEN ReadErr("IllegalContentType", 5)
               ELSE IF illegal_version(version) THEN ReadErr("IllegalProtocolVersion", 5)
               ELSE IF is_none(sub) THEN ReadErr(short_body_error, 5)
               ELSE [err |-> "Ok", typ |-> typ, version |-> version,
                     payload |-> unwrap(sub), used |-> 5 + sub_len(buf, len)]

\* (mutant) the length field is left at zero
encode_len_zero(m) == 0

\* (mutant) a length that does not fit is written as 0xffff
encode_len_saturating(m) ==
    IF Len(m.payload) > 65535 THEN 65535 ELSE Len(m.payload)

\* the length field: self.payload.0.len() as u16
encode_len(m) == Len(m.payload) % 65536

OpaqueMessage_encode(m) ==
    <<ContentType_get_u8(m.typ)>> \o u16_encode(ProtocolVersion_get_u16(m.version))
        \o u16_encode(encode_len(m)) \o m.payload

\* ------------------------------------------------ inputs of the framer
\* content type bytes: the five recognized ones and three others
TypeBytes == {20, 21, 22, 23, 24, 0, 25, 255}

\* versions: 0x0100, 0x0200, 0x0300, 0x0303, 0x0304, 0x03ff, 0x0400, 0xfefd
Versions == {256, 512, 768, 771, 772, 1023, 1024, 65277}

\* all byte sequences over {0, 255} of length n
RECURSIVE SmallPayloads(_)
SmallPayloads(n) ==
    IF n = 0 THEN {<<>>}
    ELSE {<<b>> \o q : b \in {0, 255}, q \in SmallPayloads(n - 1)}

\* a payload of n bytes, no two neighbours alike
Pattern(n) == [i \in 1..n |-> i % 256]

\* small records of every type and version, and records at the limits of
\* the length check and of the length field
Records ==
    {[typ |-> ContentType_from(t), version |-> ProtocolVersion_from(v), payload |-> q] :
        t \in TypeBytes, v \in Versions,
        q \in UNION {SmallPayloads(n) : n \in 0..MaxPayloadLen}}
    \cup
    {[typ |-> ContentType_from(t), version |-> ProtocolVersion_from(v),
      payload |-> Pattern(n)] :
        t \in {20, 21, 22, 23, 24, 0}, v \in {771, 512},
        n \in {MAX_PAYLOAD - 1, MAX_PAYLOAD}}
    \cup
    {[typ |-> ContentType_from(23), version |-> ProtocolVersion_from(771),
      payload |-> Pattern(65536 + MaxPayloadLen)]}

\* declared lengths of raw headers
DeclaredLens == {0, 1, MAX_PAYLOAD - 1, MAX_PAYLOAD, MAX_PAYLOAD + 1, 65535}

\* raw input: a header of any type, version and declared length, with up
\* to MaxBody bytes after it
RawInputs ==
    {<<t>> \o u16_encode(v) \o u16_encode(l) \o [i \in 1..k |-> 7] :
        t \in TypeBytes, v \in Versions, l \in DeclaredLens, k \in 0..MaxBody}

\* lengths at which an input is cut
Cuts(n) == {k \in {0, 1, 2, 3, 4, 5, 6, n - 1} : 0 <= k /\ k < n}

EngineIdle ==
    /\ hh = new
    /\ pc = "running"
    /\ absorbed = <<>>
    /\ absorbs = 0
    /\ collapsed = 0
    /\ hBefore = <<>>
    /\ sinceCollapse = <<>>
    /\ op = "new"
    /\ arg = ""
    /\ retb = TRUE
    /\ ret = <<>>
    /\ wireP = <<>>
    /\ fed = <<>>
    /\ parsed = NoMessage
    /\ hist = Hist0

\* a record to send, or bytes that arrived
InitFrame ==
    /\ EngineIdle
    /\ res = NoResult
    /\ \/ /\ msg \in Records
          /\ wire = <<>>
          /\ step = "record"
       \/ /\ msg = NoRecord
          /\ wire \in RawInputs
          /\ step = "raw"

engineVars == <<hh, pc, trVars, obsVars, hist>>

\* OpaqueMessage::encode of the record
Encode ==
    /\ step = "record"
    /\ wire' = OpaqueMessage_encode(msg)
    /\ step' = "wire"
    /\ UNCHANGED <<msg, res, engineVars>>

\* only the first k bytes have arrived
Cut(k) ==
    /\ step \in {"wire", "raw"}
    /\ res = NoResult
    /\ wire' = SubSeq(wire, 1, k)
    /\ step' = IF step = "wire" THEN "cut" ELSE "rawcut"
    /\ UNCHANGED <<msg, res, engineVars>>

\* one more byte has arrived behind the record
More(b) ==
    /\ step = "wire"
    /\ res = NoResult
    /\ wire' = wire \o <<b>>
    /\ step' = "more"
    /\ UNCHANGED <<msg, res, engineVars>>

\* OpaqueMessage::read of the bytes
Read ==
    /\ step \in {"wire", "raw", "cut", "rawcut", "more"}
    /\ res = NoResult
    /\ res' = OpaqueMessage_read(wire)
    /\ UNCHANGED <<msg, wire, step, engineVars>>

NextFrame ==
    \/ Encode
    \/ \E k \in Cuts(Len(wire)) : Cut(k)
    \/ \E b \in {22} : More(b)
    \/ Read

\* the record framer on records to send and on bytes that arrived
SpecFrame == InitFrame /\ [][NextFrame]_vars

\* ------------------------------------------------- a stream of bytes
\* all byte sequences over {0, 22} of length n
RECURSIVE Tails(_)
Tails(n) ==
    IF n = 0 THEN {<<>>}
    ELSE {<<b>> \o q : b \in {0, 22}, q \in Tails(n - 1)}

\* what a peer may send: a header of a recognized or unrecognized type,
\* version 0x0303, 0x0200 or 0x0400, declaring 0, 1, 2 or MAX_PAYLOAD
\* bytes, and MaxTail bytes behind it
Streams ==
    {<<t>> \o u16_encode(v) \o u16_encode(l) \o q :
        t \in {22, 0}, v \in {771, 512, 1024}, l \in {0, 1, 2, MAX_PAYLOAD},
        q \in Tails(MaxTail)}

IsPrefix(p, s) == Len(p) <= Len(s) /\ SubSeq(s, 1, Len(p)) = p

\* nothing has arrived
InitStream ==
    /\ EngineIdle
    /\ msg = NoRecord
    /\ wire = <<>>
    /\ res = NoResult
    /\ step = "raw"

\* one more byte of the stream has arrived since the last read
Arrive(b) ==
    /\ res # NoResult
    /\ step \in {"raw", "grown"}
    /\ \E s \in Streams : IsPrefix(wire \o <<b>>, s)
    /\ wire' = wire \o <<b>>
    /\ step' = "grown"
    /\ UNCHANGED <<msg, res, engineVars>>

\* OpaqueMessage::read again, from the start of the bytes that arrived;
\* hist.prev keeps what the read before it gave
Reread ==
    /\ step = "grown"
    /\ res' = OpaqueMessage_read(wire)
    /\ step' = "raw"
    /\ hist' = [hist EXCEPT !.prev = res]
    /\ UNCHANGED <<msg, wire, hh, pc, trVars, obsVars>>

NextStream ==
    \/ Read
    \/ \E b \in {0, 2, 3, 4, 22, 72} : Arrive(b)
    \/ Reread

\* the record framer reading a stream again and again as it grows
SpecStream == InitStream /\ [][NextStream]_vars

\* ---------------------------------------------- inputs of the dispatcher
\* all byte sequences over {0, 1} of length n
RECURSIVE DispatchPayloads(_)
DispatchPayloads(n) ==
    IF n = 0 THEN {<<>>}
    ELSE {<<b>> \o q : b \in {0, 1}, q \in DispatchPayloads(n - 1)}

\* records of every content type, TLS 1.2 and 1.3, with payloads that the
\* structured decoders take and payloads that they refuse
DispatchRecords ==
    {[typ |-> ContentType_from(t), version |-> ProtocolVersion_from(v), payload |-> q] :
        t \in TypeBytes, v \in {771, 772},
        q \in UNION {DispatchPayloads(n) : n \in 0..MaxDispatchLen}}

\* an opaque record, as OpaqueMessage::read gives it
InitDispatch ==
    /\ EngineIdle
    /\ msg \in DispatchRecords
    /\ wire = <<>>
    /\ res = NoResult
    /\ step = "opaque"

\* Message::try_from(opaque): MessagePayload::new of the record's fields
TryFrom ==
    /\ step = "opaque"
    /\ parsed' = MessagePayload_new(msg.typ, msg.version, msg.payload)
    /\ step' = "message"
    /\ UNCHANGED <<hh, pc, trVars, op, arg, retb, ret, wireP, fed, hist, msg, wire, res>>

NextDispatch == TryFrom

\* the payload dispatcher on opaque records
SpecDispatch == InitDispatch /\ [][NextDispatch]_vars

\* ------------------------------------------------------------ properties
pinned == ~is_none(hh.ctx)

algorithm == unwrap(hh.ctx).algorithm

\* C1: when the algorithm was pinned by one successful start_hash at any
\* point among the absorbs, with no abandon_client_auth or
\* take_handshake_buf before it and no rollup_for_hrr, the pinned
\* algorithm is the one start_hash was given and the current hash is the
\* digest under it of all bytes absorbed before and after the pin.
C1_BufferingIsHashEquivalent ==
    (pinned /\ ~hist.prePin /\ collapsed = 0) =>
        /\ get_current_hash(hh) = Digest(algorithm, absorbed)
        /\ (op = "get_current_hash" /\ pc = "running") => ret = Digest(algorithm, absorbed)
        /\ (op = "start_hash" /\ retb) => algorithm = arg

\* bytes were absorbed before and after the pin and the hash was read
C1_Witness ==
    /\ op = "get_current_hash"
    /\ pc = "running"
    /\ ~hist.prePin
    /\ collapsed = 0
    /\ 0 < hist.pinnedAt
    /\ hist.pinnedAt < Len(absorbed)
    /\ ret = Digest(algorithm, absorbed)

\* the encoding of the synthetic message_hash message wrapping digest h
MarkerOf(h) == get_encoding(build_handshake_hash(h))

\* C2: after rollup_for_hrr on an engine whose hash was H, the same
\* algorithm stays pinned and, whatever is absorbed afterwards (X), the
\* current hash is the digest of encoding(message_hash(H)) followed by X:
\* the old transcript counts only through H.
C2_CollapseRestartsFromMarker ==
    (collapsed > 0) =>
        /\ pinned
        /\ algorithm = hBefore[1].alg
        /\ get_current_hash(hh) = Digest(hBefore[1].alg, MarkerOf(hBefore) \o sinceCollapse)

\* a non-empty transcript was collapsed, more was absorbed, the hash read
C2_Witness ==
    /\ collapsed > 0
    /\ op = "get_current_hash"
    /\ pc = "running"
    /\ hBefore[1].h # <<>>
    /\ sinceCollapse # <<>>
    /\ ret = Digest(hBefore[1].alg, MarkerOf(hBefore) \o sinceCollapse)

\* C3: with retention enabled on the engine as created and never
\* abandoned, and no rollup_for_hrr, take_handshake_buf returns exactly the
\* bytes absorbed since the previous take - all bytes absorbed when it is
\* the first, nothing when it follows a take with no absorb in between -
\* wherever the pin came; it leaves the buffer empty and the hash as it was.
C3_TakeReturnsRetainedOnce ==
    [][(op' = "take_handshake_buf" /\ pc' = "running" /\ hist.retained /\ collapsed = 0) =>
          /\ ret' = hist.sinceTake
          /\ (hist.sinceTake = absorbed) => ret' = absorbed
          /\ (op = "take_handshake_buf") => ret' = <<>>
          /\ hh'.buffer = <<>>
          /\ hh'.ctx = hh.ctx
          /\ hh'.client_auth_enabled]_vars

\* bytes absorbed before and after the pin were all returned by the take
C3_Witness ==
    /\ op = "take_handshake_buf"
    /\ pc = "running"
    /\ hist.retained
    /\ collapsed = 0
    /\ pinned
    /\ unwrap(hh.ctx).input = absorbed
    /\ Len(absorbed) >= 2
    /\ ret = absorbed
    /\ hh.buffer = <<>>

\* C4: the first start_hash pins its algorithm and returns true; a later
\* one with the same algorithm returns true, one with another algorithm
\* returns false, and both leave the engine as it was; no call changes or
\* removes the pinned algorithm.
C4_PinOnce ==
    [][/\ pinned => (~is_none(hh'.ctx) /\ unwrap(hh'.ctx).algorithm = algorithm)
       /\ (op' = "start_hash" /\ ~pinned) =>
             (retb' /\ ~is_none(hh'.ctx) /\ unwrap(hh'.ctx).algorithm = arg')
       /\ (op' = "start_hash" /\ pinned) =>
             (hh' = hh /\ retb' = (arg' = algorithm))]_vars

\* a second start_hash with another algorithm was refused
C4_Witness ==
    /\ op = "start_hash"
    /\ ~retb
    /\ pinned
    /\ algorithm # arg

\* the record is one the claims call valid: a recognized content type, a
\* version 0x03?? and a payload shorter than 18432 bytes
ValidRecord(m) ==
    /\ m.typ.variant # "Unknown"
    /\ ProtocolVersion_get_u16(m.version) \div 256 = 3
    /\ Len(m.payload) <= 18431

\* OpaqueMessage::read has run on the bytes
HasRead == res # NoResult

\* the 16-bit fields of a complete header
DeclaredLen == wire[4] * 256 + wire[5]

DeclaredVersion == wire[2] * 256 + wire[3]

Fatal == {"IllegalLength", "IllegalContentType", "IllegalProtocolVersion"}

\* C5: reading the encoding of a valid record (recognized content type,
\* version 0x03??, payload of 0..18431 bytes), with or without more bytes
\* behind it, succeeds, gives back the same content type, version and
\* payload, and consumes exactly 5 + length bytes.
C5_RecordRoundTrip ==
    (HasRead /\ step \in {"wire", "more"} /\ ValidRecord(msg)) =>
        /\ res.err = "Ok"
        /\ res.typ = msg.typ
        /\ res.version = msg.version
        /\ res.payload = msg.payload
        /\ res.used = 5 + Len(msg.payload)

\* a record with the longest payload allowed came back, a byte behind it
C5_Witness ==
    /\ HasRead
    /\ step = "more"
    /\ ValidRecord(msg)
    /\ Len(msg.payload) = 18431
    /\ res.err = "Ok"
    /\ res.payload = msg.payload
    /\ res.used = 18436
    /\ Len(wire) = 18437

\* C6: with a complete header, read fails with IllegalLength exactly when
\* the declared length is 18432 or more; a record read successfully has a
\* payload shorter than 18432 bytes and takes at most 18437 bytes.
C6_LengthBound ==
    (HasRead /\ Len(wire) >= 5) =>
        /\ (res.err = "IllegalLength") <=> (DeclaredLen >= 18432)
        /\ (res.err = "Ok") =>
              (Len(res.payload) < 18432 /\ res.used <= 18437
               /\ res.used <= MAX_WIRE_SIZE)

\* a header declaring exactly 18432 bytes was refused
C6_Witness ==
    /\ HasRead
    /\ Len(wire) >= 5
    /\ DeclaredLen = 18432
    /\ res.err = "IllegalLength"

\* C7 as claimed: with a complete header, a length in range and a
\* recognized content type, read fails with IllegalProtocolVersion for
\* every version v with (v & 0xff00) # 0x0300 and never when the high byte
\* is 0x03; a record read successfully has a version 0x03??.
C7_VersionGate ==
    (HasRead /\ Len(wire) >= 5 /\ DeclaredLen < 18432 /\ wire[1] \in 20..24) =>
        /\ (DeclaredVersion \div 256 # 3) => res.err = "IllegalProtocolVersion"
        /\ (DeclaredVersion \div 256 = 3) => res.err # "IllegalProtocolVersion"
        /\ (res.err = "Ok") => ProtocolVersion_get_u16(res.version) \div 256 = 3

\* C8: encode takes a record of any content type, and read of a complete
\* header with a length in range fails with IllegalContentType for every
\* content type byte outside 20..24 - so for the encoding of a record of
\* content type 0 - and no record read successfully has an Unknown
\* content type.
C8_ContentTypeAsymmetry ==
    /\ (HasRead /\ Len(wire) >= 5 /\ DeclaredLen < 18432 /\ wire[1] \notin 20..24)
          => res.err = "IllegalContentType"
    /\ (HasRead /\ res.err = "Ok") => res.typ.variant # "Unknown"
    /\ (HasRead /\ step = "wire" /\ msg.typ = ContentType_from(0)
          /\ Len(msg.payload) < 18432)
          => (/\ Len(wire) = 5 + Len(msg.payload)
              /\ wire[1] = 0
              /\ res.err = "IllegalContentType")

\* a record of content type 0 was encoded and its encoding refused
C8_Witness ==
    /\ HasRead
    /\ step = "wire"
    /\ msg.typ = ContentType_from(0)
    /\ Len(msg.payload) > 0
    /\ wire[1] = 0
    /\ res.err = "IllegalContentType"

\* C9: read of a proper prefix of the encoding of a valid record gives
\* TooShortForHeader when the prefix has fewer than 5 bytes and
\* TooShortForLength otherwise, never a fatal error; and any input of
\* fewer than 5 bytes gives TooShortForHeader.
C9_PrefixesAreRecoverable ==
    /\ (HasRead /\ step = "cut" /\ ValidRecord(msg)) =>
          /\ Len(wire) < 5 => res.err = "TooShortForHeader"
          /\ Len(wire) >= 5 => res.err = "TooShortForLength"
          /\ res.err \notin Fatal
    /\ (HasRead /\ Len(wire) < 5) => res.err = "TooShortForHeader"

\* the header of a valid record had arrived, not all of its payload
C9_Witness ==
    /\ HasRead
    /\ step = "cut"
    /\ ValidRecord(msg)
    /\ Len(wire) >= 5
    /\ Len(wire) < 5 + Len(msg.payload)
    /\ res.err = "TooShortForLength"

\* C10 as claimed: for every Handshake record payload P the dispatcher
\* decodes into a Handshake message, add_message hashes exactly P.
C10_TranscriptIsWireBytes ==
    (op = "add_message" /\ parsed.ok /\ parsed.m.kind = "Handshake") =>
        fed = Lift(wireP)

\* C11 as claimed: while no algorithm is pinned, the buffer is all bytes
\* absorbed since the engine was created.
C11_BufferIsWholeTranscript ==
    ~pinned => hh.buffer = absorbed

\* C11: while no algorithm is pinned, the buffer is all bytes absorbed
\* since the last abandon_client_auth or take_handshake_buf, or since the
\* engine was created when neither was called.
C11_BufferIsTranscriptSinceClear ==
    ~pinned =>
        /\ hh.buffer = hist.sinceClear
        /\ (hist.lastClear = "") => hh.buffer = absorbed

\* bytes were absorbed, abandoned, and more bytes absorbed, none pinned
C11_Witness ==
    /\ ~pinned
    /\ pc = "running"
    /\ hist.lastClear = "abandon_client_auth"
    /\ hist.sinceClear # <<>>
    /\ Len(hist.sinceClear) < Len(absorbed)
    /\ hh.buffer = hist.sinceClear

\* C12: whenever an algorithm is pinned and client_auth_enabled is false
\* the buffer is empty; update_raw, add_message and rollup_for_hrr called
\* in such a state change nothing but the digest context and leave the
\* buffer empty.
C12_NoBufferWithoutRetention ==
    [][/\ (pinned /\ ~hh.client_auth_enabled) => hh.buffer = <<>>
       /\ (~is_none(hh'.ctx) /\ ~hh'.client_auth_enabled) => hh'.buffer = <<>>
       /\ (/\ pinned
           /\ ~hh.client_auth_enabled
           /\ op' \in {"update_raw", "add_message", "rollup_for_hrr"}
           /\ pc' = "running") =>
             /\ hh'.buffer = <<>>
             /\ hh' = [hh EXCEPT !.ctx = hh'.ctx]]_vars

\* bytes were absorbed after a rollup, pinned without retention, and only
\* the context took them
C12_Witness ==
    /\ op = "update_raw"
    /\ pc = "running"
    /\ pinned
    /\ ~hh.client_auth_enabled
    /\ collapsed > 0
    /\ unwrap(hh.ctx).input = MarkerOf(hBefore) \o fed
    /\ fed # <<>>
    /\ hh.buffer = <<>>

\* C13: when abandon_client_auth was the last call to empty the buffer
\* before the algorithm was pinned, with or without retention enabled
\* before it, and there was no rollup_for_hrr, the current hash is the
\* digest of the bytes absorbed after the abandon only - not of the bytes
\* absorbed before it followed by those.
C13_AbandonDiscardsTranscript ==
    (pinned /\ hist.lastClear = "abandon_client_auth" /\ collapsed = 0) =>
        /\ get_current_hash(hh) = Digest(algorithm, hist.sinceClear)
        /\ (hist.sinceClear # absorbed) =>
              get_current_hash(hh) # Digest(algorithm, absorbed)
        /\ (op = "get_current_hash" /\ pc = "running") =>
              ret = Digest(algorithm, hist.sinceClear)

\* bytes absorbed, abandoned, more bytes absorbed, pinned, the hash read
C13_Witness ==
    /\ op = "get_current_hash"
    /\ pc = "running"
    /\ collapsed = 0
    /\ hist.lastClear = "abandon_client_auth"
    /\ hist.sinceClear # <<>>
    /\ Len(hist.sinceClear) < Len(absorbed)
    /\ hist.pinnedAt = Len(absorbed)
    /\ ret = Digest(algorithm, hist.sinceClear)
    /\ ret # Digest(algorithm, absorbed)

\* C14: MessagePayload::new never gives CorruptMessagePayload for
\* ApplicationData or Handshake, whatever the payload, the empty one
\* included: ApplicationData gives an ApplicationData message with the
\* payload as it was; Handshake gives the parsed Handshake message or, when
\* the handshake decoder refuses the payload, a TLS12EncryptedHandshake
\* message with the payload as it was. CorruptMessagePayload carries the
\* content type and comes only from an Alert, ChangeCipherSpec or
\* Heartbeat payload its decoder refuses, or from another content type.
C14_DispatchFallback ==
    (step = "message") =>
        LET t == msg.typ.variant
            p == msg.payload
            hs == HandshakeMessagePayload_read(p)
        IN /\ (t \in {"Handshake", "ApplicationData"}) => parsed.ok
           /\ (t = "ApplicationData") =>
                 (parsed.m.kind = "ApplicationData" /\ parsed.m.body = Lift(p))
           /\ (t = "Handshake" /\ is_none(hs)) =>
                 (parsed.m.kind = "TLS12EncryptedHandshake" /\ parsed.m.body = Lift(p))
           /\ (t = "Handshake" /\ ~is_none(hs)) =>
                 (parsed.m.kind = "Handshake" /\ parsed.m = unwrap(hs))
           /\ (~parsed.ok) =>
                 /\ parsed.err = msg.typ
                 /\ \/ t = "Alert" /\ is_none(AlertMessagePayload_read(p))
                    \/ t = "ChangeCipherSpec" /\ is_none(ChangeCipherSpecPayload_read(p))
                    \/ t = "Heartbeat" /\ is_none(HeartbeatPayload_read(p))
                    \/ t = "Unknown"

\* an empty Handshake payload came back as a TLS12EncryptedHandshake
C14_Witness ==
    /\ step = "message"
    /\ msg.typ.variant = "Handshake"
    /\ msg.payload = <<>>
    /\ parsed.ok
    /\ parsed.m.kind = "TLS12EncryptedHandshake"
    /\ parsed.m.body = <<>>

\* C15: no call sets, changes or removes the override; on an engine
\* created with override V get_current_hash_raw returns V after any calls,
\* pinned or not, and never panics; on an engine created without one it
\* returns the bytes of get_current_hash.
C15_OverrideIsReturnedVerbatim ==
    [][/\ hh'.override_buffer = hh.override_buffer
       /\ (op' = "get_current_hash_raw" /\ pc = "running"
             /\ ~is_none(hh.override_buffer)) =>
             (pc' = "running" /\ ret' = unwrap(hh.override_buffer))
       /\ (op' = "get_current_hash_raw" /\ pc' = "running"
             /\ is_none(hh.override_buffer)) =>
             ret' = get_current_hash(hh)]_vars

\* the override came back from an engine with bytes absorbed, none pinned
C15_Witness ==
    /\ op = "get_current_hash_raw"
    /\ pc = "running"
    /\ ~is_none(hh.override_buffer)
    /\ ~pinned
    /\ absorbed # <<>>
    /\ hh.buffer = absorbed
    /\ ret = unwrap(hh.override_buffer)

C17_CheckOrder ==
    HasRead =>
        res.err =
            IF Len(wire) < 5 THEN "TooShortForHeader"
            ELSE IF DeclaredLen >= 18432 THEN "IllegalLength"
            ELSE IF wire[1] \notin 20..24 THEN "IllegalContentType"
            ELSE IF DeclaredVersion \div 256 # 3 THEN "IllegalProtocolVersion"
            ELSE IF Len(wire) - 5 < DeclaredLen THEN "TooShortForLength"
            ELSE "Ok"

\* the encoding of the record is its content type, its version, a length
\* field holding len, and its payload
EncodedWith(len) ==
    /\ Len(wire) = 5 + Len(msg.payload)
    /\ wire[1] = ContentType_get_u8(msg.typ)
    /\ DeclaredVersion = ProtocolVersion_get_u16(msg.version)
    /\ DeclaredLen = len
    /\ SubSeq(wire, 6, Len(wire)) = msg.payload

\* C18 as claimed: encode writes content type, version, length and the
\* payload as it is, 5 + payload length bytes in all, and the length field
\* is the payload's length for every payload, those of 18432 bytes or more
\* and those of 65536 bytes or more included.
C18_EncodeWritesActualLength ==
    (step = "wire") => EncodedWith(Len(msg.payload))

\* C18: encode writes content type, version, length and the payload as it
\* is, 5 + payload length bytes in all; the length field is the payload's
\* length when that is below 65536, lengths of 18432 and more included,
\* and the payload's length modulo 65536 otherwise.
C18_EncodeWritesLengthMod65536 ==
    (step = "wire") =>
        /\ EncodedWith(Len(msg.payload) % 65536)
        /\ (Len(msg.payload) < 65536) => DeclaredLen = Len(msg.payload)

\* a payload of more than 65536 bytes was encoded, its length wrapped
C18_Witness ==
    /\ step = "wire"
    /\ Len(msg.payload) > 65536
    /\ Len(wire) = 5 + Len(msg.payload)
    /\ DeclaredLen = Len(msg.payload) - 65536
    /\ DeclaredLen > 0

\* C19 as claimed: with retention enabled on the engine as created and
\* never abandoned or taken, after any update_raw, add_message, start_hash
\* and rollup_for_hrr calls, once an algorithm is pinned the digest under
\* it of the buffer is the current hash.
C19_BufferAndDigestInStep ==
    (pinned /\ hist.retained /\ ~hist.taken) =>
        Digest(algorithm, hh.buffer) = get_current_hash(hh)

\* C20: when read of the bytes b gave a fatal error (IllegalLength,
\* IllegalContentType, IllegalProtocolVersion), read of b followed by more
\* bytes gives the same error; when it gave a record, read of b followed by
\* more bytes gives the same record and takes the same number of bytes;
\* only TooShortForHeader and TooShortForLength can turn into something
\* else when bytes are appended.
C20_ReadIsStable ==
    [][(step = "grown" /\ step' = "raw") =>
          /\ (res.err \in Fatal) => res' = res
          /\ (res.err = "Ok") =>
                (res'.err = "Ok" /\ res'.typ = res.typ /\ res'.version = res.version
                 /\ res'.payload = res.payload /\ res'.used = res.used)
          /\ (res' # res) => res.err \in {"TooShortForHeader", "TooShortForLength"}]_vars

\* a record with a payload was read, more bytes arrived, and the read
\* gave the same record
C20_Witness ==
    /\ step = "raw"
    /\ hist.prev.err = "Ok"
    /\ res = hist.prev
    /\ res.payload # <<>>
    /\ Len(wire) > res.used

====
